---- MODULE Spec2Model ----
(***************************************************************************)
(* Model of the dragonfly Server (src/server/world/sound/named.go, the     *)
(* `package dragonfly` part that starts at line 17): the running flag, the *)
(* listener, the accept loop, the per-connection handshake tasks, the      *)
(* unbuffered hand-off channel `players`, the player registry `p` guarded *)
(* by `playerMutex`, and Close.                                            *)
(*                                                                         *)
(* Every API call is a call slot with its own program counter, so that     *)
(* calls made from different goroutines interleave at the points where the *)
(* Go code synchronises (atomic load/store, channel operation, mutex).     *)
(*                                                                         *)
(* Modelling decisions:                                                    *)
(*  - A panic raised by the guard of Start, Run or Close unwinds into the   *)
(*    caller; the call slot ends "panicked" and the rest of the program     *)
(*    goes on (a run in which the panic ends the process is a prefix of    *)
(*    one of these).  A panic inside a goroutine the server started (the   *)
(*    accept loop, a handshake task) ends the process: proc = "panic".      *)
(*  - The collaborators (listener, world, connection, session, player) are *)
(*    outside this file; what they return is an input of the action that   *)
(*    calls them.  Whether player.Disconnect runs the session's close       *)
(*    callback before it returns is not decided by this file either, so     *)
(*    both are allowed (CloseNotify's `sync`).                              *)
(*  - Close calls are made one after the other; Start/Run and Accept calls *)
(*    may be concurrent.                                                    *)
(*  - closeLog, snap, sFlag, cFlag, aAfterClose, sentLog, returnedLog,     *)
(*    early and overlap only record what happened; no program variable     *)
(*    depends on them.                                                     *)
(***************************************************************************)
EXTENDS Integers, Sequences, FiniteSets, TLC

\* ---------------------------------------------------------------- bounds
MaxStartCalls  == 2   \* calls of Start/Run made on the one server
MaxCloseCalls  == 2   \* calls of Close
MaxAcceptCalls == 2   \* calls of Accept
MaxConns       == 2   \* raw connections the listener ever yields

\* The two scenarios that are explored (see Spec and SpecLife below): the
\* number of Start/Run and Close calls in the traffic scenario, the number of
\* Accept calls and connections in the life-cycle scenario.
TrafficStarts == 1
TrafficCloses == 1
LifeAccepts   == 1
LifeConns     == 1

StartCalls  == 1..MaxStartCalls
CloseCalls  == 1..MaxCloseCalls
AcceptCalls == 1..MaxAcceptCalls
Conns       == 1..MaxConns

\* ------------------------------------------------------------ input sets
\* Config values reaching the code (Config.Server.MaximumPlayers and
\* Config.Server.ShutdownMessage); 0 is the "unbounded" sentinel.
Configs ==
    { [MaximumPlayers |-> 0,  ShutdownMessage |-> "Server closed."],
      [MaximumPlayers |-> 20, ShutdownMessage |-> "Restarting."] }

\* What a client may declare as conn.IdentityData().Identity: a well-formed
\* spelling ("std", xxxxxxxx-xxxx-xxxx-xxxx-xxxxxxxxxxxx) of a 128-bit value,
\* or text that spells none ("bad").  Nothing stops two clients from
\* declaring the same value.
Declared == { <<"std", v>> : v \in 1..MaxConns } \cup { <<"bad", 0>> }

NoUUID == 0

\* Mutant of uuidParse: the parse error is dropped.
uuidParseLenient(d) == [id |-> d[2], err |-> FALSE]

\* uuid.Parse(conn.IdentityData().Identity): the parsed value and whether
\* parsing failed.
uuidParse(d) ==
    IF d[1] = "std" THEN [id |-> d[2], err |-> FALSE]
                    ELSE [id |-> NoUUID, err |-> TRUE]

\* text.Yellow()(msg): wraps the message in the yellow colour code and a
\* reset code.
Yellow(msg) == <<"[yellow]", msg, "[reset]">>

\* ----------------------------------------------------------------- state
VARIABLES
    cfg,         \* server.c, fixed at New
    started,     \* *server.started (0 or 1)
    listener,    \* the object server.listener points to:
                 \*   "nil" | "unbound" | "listening" | "closed"
    world,       \* server.world: "new" | "loaded" | "closed"
    chanClosed,  \* whether close(server.players) has been executed
    p,           \* server.p: function from UUID to the player (its conn)
    readers,     \* Close calls holding playerMutex.RLock
    wq,          \* writers blocked in playerMutex.Lock
    proc,        \* the process: "up" | "fatal" (log.Fatalf) | "panic"
    spc,         \* per Start/Run call: position
    sFlag,       \* per Start/Run call: the value of started when it was made
    loop,        \* per Start/Run call: its run() loop "none"|"active"|"exited"
    cpc,         \* per Close call: position
    cFlag,       \* per Close call: the value of started when it was made
    todo,        \* per Close call: registry keys the range loop still visits
    snap,        \* per Close call: the registry when it took the read lock
    closeLog,    \* per Close call: collaborator calls it made, in order
    cres,        \* per Close call: "none" | "nil" | "err"
    apc,         \* per Accept call: position
    recv,        \* per Accept call: the player received from the channel
    ares,        \* per Accept call: "none" | "player" | "closed"
    aAfterClose, \* per Accept call: some Close had returned when it was made
    hs,          \* per connection: position of its handleConn task
    ident,       \* per connection: the declared identity
    connEnd,     \* per connection: "open" | "disconnected" | "closed"
    sess,        \* per connection: session "none"|"open"|"stuck"|"closed"
    sentLog,     \* players in the order their channel sends completed
    returnedLog, \* players in the order Accept calls returned them
    early,       \* connections whose session-close callback ran before
                 \* Accept inserted the player
    overlap      \* whether two Accept calls have been in progress at once

vars == << cfg, started, listener, world, chanClosed, p, readers, wq, proc,
           spc, sFlag, loop, cpc, cFlag, todo, snap, closeLog, cres,
           apc, recv, ares, aAfterClose, hs, ident, connEnd, sess,
           sentLog, returnedLog, early, overlap >>

serverVars  == << started, listener, world, chanClosed >>
startVars   == << spc, sFlag, loop >>
closeVars   == << cpc, cFlag, todo, snap, closeLog, cres >>
acceptVars  == << apc, recv, ares, aAfterClose >>
connVars    == << hs, ident, connEnd, sess >>
mutexVars   == << readers, wq >>
logVars     == << sentLog, returnedLog, early, overlap >>

\* New(c, log): a fresh server; nothing started, an open unbuffered channel,
\* an empty registry.
Init ==
    /\ cfg \in Configs
    /\ started = 0
    /\ listener = "nil"
    /\ world = "new"
    /\ chanClosed = FALSE
    /\ p = << >>
    /\ readers = {}
    /\ wq = {}
    /\ proc = "up"
    /\ spc = [c \in StartCalls |-> "idle"]
    /\ sFlag = [c \in StartCalls |-> 0]
    /\ loop = [c \in StartCalls |-> "none"]
    /\ cpc = [k \in CloseCalls |-> "idle"]
    /\ cFlag = [k \in CloseCalls |-> 0]
    /\ todo = [k \in CloseCalls |-> {}]
    /\ snap = [k \in CloseCalls |-> << >>]
    /\ closeLog = [k \in CloseCalls |-> << >>]
    /\ cres = [k \in CloseCalls |-> "none"]
    /\ apc = [a \in AcceptCalls |-> "idle"]
    /\ recv = [a \in AcceptCalls |-> 0]
    /\ ares = [a \in AcceptCalls |-> "none"]
    /\ aAfterClose = [a \in AcceptCalls |-> FALSE]
    /\ hs = [c \in Conns |-> "none"]
    /\ ident = [c \in Conns |-> <<"bad", 0>>]
    /\ connEnd = [c \in Conns |-> "open"]
    /\ sess = [c \in Conns |-> "none"]
    /\ sentLog = << >>
    /\ returnedLog = << >>
    /\ early = {}
    /\ overlap = FALSE

\* ------------------------------------------------------ registry helpers
\* server.p[id] = pl
Insert(m, id, pl) ==
    [x \in (DOMAIN m) \cup {id} |-> IF x = id THEN pl ELSE m[x]]

\* Mutant of Remove: the entry is left in the map.
RemoveNothing(m, id) == m

\* delete(server.p, id): a no-op when id is absent
Remove(m, id) == [x \in (DOMAIN m) \ {id} |-> m[x]]

\* p.UUID() of the player createPlayer built for connection n
UUIDOf(n) == uuidParse(ident[n]).id

\* Mutants of running: the flag is compared with a value it never has; the
\* flag is not compared at all.
runningNever == started = 2

runningAlways == started >= 0

\* Server.running
running == started = 1

\* Server.PlayerCount
PlayerCount == Cardinality(DOMAIN p)

\* Server.Players (the players, as a set: the slice has no defined order)
Players == { p[x] : x \in DOMAIN p }

\* Server.Player
Player(id) == IF id \in DOMAIN p THEN [p |-> p[id], ok |-> TRUE]
                                 ELSE [p |-> 0, ok |-> FALSE]

\* A MaxPlayerCount that reports the bare player count for the zero sentinel.
MaxPlayerCountFull ==
    IF cfg.MaximumPlayers = 0 THEN PlayerCount ELSE cfg.MaximumPlayers

\* Server.MaxPlayerCount
MaxPlayerCount ==
    IF cfg.MaximumPlayers = 0 THEN PlayerCount + 1 ELSE cfg.MaximumPlayers

Range(s) == { s[i] : i \in DOMAIN s }

\* Call slots and connections are taken in index order: slot i is used only
\* once slot i-1 has left its unused position.
InOrder(pc, i, unused) == IF i = 1 THEN TRUE ELSE pc[i - 1] # unused

\* ------------------------------------------------------------ Start / Run
\* The guard of Start and Run (the two functions are the same statement for
\* statement up to the launch of run()): running() is loaded, and the call
\* panics if it reads 1.  The panic unwinds into the caller.
StartBegin(c) ==
    /\ proc = "up"
    /\ spc[c] = "idle"
    /\ InOrder(spc, c, "idle")
    /\ sFlag' = [sFlag EXCEPT ![c] = started]
    /\ spc' = [spc EXCEPT ![c] = IF running THEN "panicked" ELSE "checked"]
    /\ UNCHANGED << cfg, serverVars, p, mutexVars, proc, loop, closeVars,
                    acceptVars, connVars, logVars >>

\* atomic.StoreUint32(server.started, 1)
StartStore(c) ==
    /\ proc = "up"
    /\ spc[c] = "checked"
    /\ started' = 1
    /\ spc' = [spc EXCEPT ![c] = "stored"]
    /\ UNCHANGED << cfg, listener, world, chanClosed, p, mutexVars, proc,
                    sFlag, loop, closeVars, acceptVars, connVars, logVars >>

\* loadWorld, startListening and the launch of run().  worldOk: mcdb.New
\* succeeded (log.Fatalf ends the process otherwise); bindOk: Listen
\* succeeded.  server.listener is assigned before Listen is attempted.
\* kind: the call is Run (run() on the calling goroutine, the call returns
\* when run() does) or Start (go run(), the call returns nil at once).
StartListen(c, kind, worldOk, bindOk) ==
    /\ proc = "up"
    /\ spc[c] = "stored"
    /\ IF ~worldOk
       THEN /\ kind = "Start" /\ bindOk
            /\ proc' = "fatal"
            /\ spc' = [spc EXCEPT ![c] = "fatal"]
            /\ UNCHANGED << world, listener, loop >>
       ELSE /\ world' = "loaded"
            /\ proc' = proc
            /\ IF ~bindOk
               THEN /\ kind = "Start"
                    /\ listener' = "unbound"
                    /\ spc' = [spc EXCEPT ![c] = "returned_err"]
                    /\ loop' = loop
               ELSE /\ listener' = "listening"
                    /\ loop' = [loop EXCEPT ![c] = "active"]
                    /\ spc' = [spc EXCEPT ![c] =
                                 IF kind = "Run" THEN "in_run"
                                                     ELSE "returned_nil"]
    /\ UNCHANGED << cfg, started, chanClosed, p, mutexVars, sFlag,
                    closeVars, acceptVars, connVars, logVars >>

\* ---------------------------------------------------------------- run()
\* An accept loop that calls handleConn on its own goroutine: it takes the
\* next connection only when no handshake is under way.
RunAcceptConnInline(c, n) ==
    /\ proc = "up"
    /\ loop[c] = "active"
    /\ listener = "listening"
    /\ hs[n] = "none"
    /\ InOrder(hs, n, "none")
    /\ \A m \in Conns : hs[m] \notin {"negotiating", "sending"}
    /\ hs' = [hs EXCEPT ![n] = "negotiating"]
    /\ UNCHANGED << cfg, serverVars, p, mutexVars, proc, startVars,
                    closeVars, acceptVars, ident, connEnd, sess,
                    logVars >>

\* server.listener.Accept() yields raw connection n; go server.handleConn(c).
RunAcceptConn(c, n) ==
    /\ proc = "up"
    /\ loop[c] = "active"
    /\ listener = "listening"
    /\ hs[n] = "none"
    /\ InOrder(hs, n, "none")
    /\ hs' = [hs EXCEPT ![n] = "negotiating"]
    /\ UNCHANGED << cfg, serverVars, p, mutexVars, proc, startVars,
                    closeVars, acceptVars, ident, connEnd, sess,
                    logVars >>

\* server.listener.Accept() returns an error (the listener was closed):
\* close(server.players) and return.  Closing a closed channel panics.
RunListenerError(c) ==
    /\ proc = "up"
    /\ loop[c] = "active"
    /\ listener = "closed"
    /\ IF chanClosed
       THEN /\ proc' = "panic"
            /\ UNCHANGED << chanClosed, loop, spc >>
       ELSE /\ chanClosed' = TRUE
            /\ proc' = proc
            /\ loop' = [loop EXCEPT ![c] = "exited"]
            /\ spc' = [spc EXCEPT ![c] =
                         IF spc[c] = "in_run" THEN "returned_nil" ELSE spc[c]]
    /\ UNCHANGED << cfg, started, listener, world, p, mutexVars,
                    sFlag, closeVars, acceptVars, connVars, logVars >>

\* ------------------------------------------------------------ handleConn
\* The 128-bit values clients have declared so far.  Values are
\* interchangeable, so a client declares a value already seen or the
\* smallest one not yet seen.
SeenValues == { ident[m][2] : m \in { x \in Conns : ident[x][1] = "std" } }

FreshOrSeen(d) == d[1] = "bad" \/ d[2] <= Cardinality(SeenValues) + 1

\* conn.StartGame, uuid.Parse and createPlayer, up to the channel send.
\* startGameOk: the game-start negotiation succeeded; d: the identity the
\* client declared in its login (read only after StartGame succeeded).
HandleConn(n, startGameOk, d) ==
    /\ proc = "up"
    /\ hs[n] = "negotiating"
    /\ IF ~startGameOk
       THEN /\ d = <<"bad", 0>>
            /\ connEnd' = [connEnd EXCEPT ![n] = "disconnected"]
            /\ hs' = [hs EXCEPT ![n] = "failed"]
            /\ UNCHANGED << sess, ident >>
       ELSE /\ FreshOrSeen(d)
            /\ ident' = [ident EXCEPT ![n] = d]
            /\ IF uuidParse(d).err
               THEN /\ connEnd' = [connEnd EXCEPT ![n] = "closed"]
                    /\ hs' = [hs EXCEPT ![n] = "failed"]
                    /\ sess' = sess
               ELSE /\ sess' = [sess EXCEPT ![n] = "open"]
                    /\ hs' = [hs EXCEPT ![n] = "sending"]
                    /\ connEnd' = connEnd
    /\ UNCHANGED << cfg, serverVars, p, mutexVars, proc, startVars,
                    closeVars, acceptVars, logVars >>

\* server.players <- player, on a channel run() has closed: a panic in the
\* handshake goroutine, which ends the process.
HandleConnSendClosed(n) ==
    /\ proc = "up"
    /\ hs[n] = "sending"
    /\ chanClosed
    /\ proc' = "panic"
    /\ UNCHANGED << cfg, serverVars, p, mutexVars, startVars, closeVars,
                    acceptVars, connVars, logVars >>

\* ---------------------------------------------------------------- Accept
\* Whether some Close call has returned to its caller.
CloseReturned == \E k \in CloseCalls : cpc[k] = "returned"

\* A call of Accept arrives at the receive `<-server.players`.
AcceptBegin(a) ==
    /\ proc = "up"
    /\ apc[a] = "idle"
    /\ InOrder(apc, a, "idle")
    /\ apc' = [apc EXCEPT ![a] = "receiving"]
    /\ aAfterClose' = [aAfterClose EXCEPT ![a] = CloseReturned]
    /\ overlap' = (overlap \/ \E b \in AcceptCalls :
                                  apc[b] \in {"receiving", "got"})
    /\ UNCHANGED << cfg, serverVars, p, mutexVars, proc, startVars,
                    closeVars, recv, ares, connVars, sentLog, returnedLog,
                    early >>

\* Mutant of ChanRecv: every receive yields the first connection's player.
ChanRecvStale(n) == 1

\* The value a receive from the channel yields when the send of connection
\* n's player is the one it meets.
ChanRecv(n) == n

\* A channel with a buffer: the send of handleConn(n) completes with no
\* receive to meet it.
ChanHandOffBuffered(n, a) ==
    /\ proc = "up"
    /\ ~chanClosed
    /\ hs[n] = "sending"
    /\ hs' = [hs EXCEPT ![n] = "done"]
    /\ sentLog' = Append(sentLog, n)
    /\ UNCHANGED << cfg, serverVars, p, mutexVars, proc, startVars,
                    closeVars, acceptVars, ident, connEnd, sess,
                    returnedLog, early, overlap >>

\* The unbuffered channel: the send of handleConn(n) and the receive of
\* Accept call a complete together.  handleConn returns after its send.
ChanHandOff(n, a) ==
    /\ proc = "up"
    /\ ~chanClosed
    /\ hs[n] = "sending"
    /\ apc[a] = "receiving"
    /\ hs' = [hs EXCEPT ![n] = "done"]
    /\ apc' = [apc EXCEPT ![a] = "got"]
    /\ recv' = [recv EXCEPT ![a] = ChanRecv(n)]
    /\ sentLog' = Append(sentLog, n)
    /\ UNCHANGED << cfg, serverVars, p, mutexVars, proc, startVars,
                    closeVars, ares, aAfterClose, ident, connEnd, sess,
                    returnedLog, early, overlap >>

\* The receive on the closed channel: ok is false, Accept returns the
\* "server closed" error.
AcceptClosed(a) ==
    /\ proc = "up"
    /\ chanClosed
    /\ apc[a] = "receiving"
    /\ apc' = [apc EXCEPT ![a] = "returned"]
    /\ ares' = [ares EXCEPT ![a] = "closed"]
    /\ UNCHANGED << cfg, serverVars, p, mutexVars, proc, startVars,
                    closeVars, recv, aAfterClose, connVars, logVars >>

\* playerMutex.Lock(); server.p[p.UUID()] = p; playerMutex.Unlock();
\* return p, nil.  While a Close call holds the read lock the writer waits
\* in Lock (and, waiting, keeps new readers out).
AcceptInsert(a) ==
    /\ proc = "up"
    /\ apc[a] = "got"
    /\ IF readers = {}
       THEN /\ p' = Insert(p, UUIDOf(recv[a]), recv[a])
            /\ wq' = wq \ {<<"accept", a>>}
            /\ apc' = [apc EXCEPT ![a] = "returned"]
            /\ ares' = [ares EXCEPT ![a] = "player"]
            /\ returnedLog' = Append(returnedLog, recv[a])
       ELSE /\ <<"accept", a>> \notin wq
            /\ wq' = wq \cup {<<"accept", a>>}
            /\ UNCHANGED << p, apc, ares, returnedLog >>
    /\ UNCHANGED << cfg, serverVars, readers, proc, startVars, closeVars,
                    recv, aAfterClose, connVars, sentLog, early, overlap >>

\* ---------------------------------------------------- handleSessionClose
\* The session of connection n terminates and invokes the callback given to
\* s.Start, on a goroutine of its own: Lock, delete(server.p, UUID), Unlock.
HandleSessionClose(n) ==
    /\ proc = "up"
    /\ sess[n] = "open"
    /\ IF readers = {}
       THEN /\ p' = Remove(p, UUIDOf(n))
            /\ wq' = wq \ {<<"session", n>>}
            /\ sess' = [sess EXCEPT ![n] = "closed"]
            /\ early' = IF n \in Range(returnedLog) THEN early
                                                    ELSE early \cup {n}
       ELSE /\ <<"session", n>> \notin wq
            /\ wq' = wq \cup {<<"session", n>>}
            /\ UNCHANGED << p, sess, early >>
    /\ UNCHANGED << cfg, serverVars, readers, proc, startVars, closeVars,
                    acceptVars, hs, ident, connEnd, sentLog,
                    returnedLog, overlap >>

\* ----------------------------------------------------------------- Close
\* Positions at which a Close call no longer runs (it returned, panicked,
\* or is blocked for good).
CloseOver == {"returned", "panicked", "nilpanic", "deadlock"}

\* The guard of Close: it panics unless running() reads 1.  Close calls are
\* made one at a time: a call is made once the call before it is over.
CloseBegin(k) ==
    /\ proc = "up"
    /\ cpc[k] = "idle"
    /\ IF k = 1 THEN TRUE ELSE cpc[k - 1] \in CloseOver
    /\ cFlag' = [cFlag EXCEPT ![k] = started]
    /\ cpc' = [cpc EXCEPT ![k] = IF running THEN "rlock" ELSE "panicked"]
    /\ UNCHANGED << cfg, serverVars, p, mutexVars, proc, startVars, todo,
                    snap, closeLog, cres, acceptVars, connVars, logVars >>

\* playerMutex.RLock() and the start of `range server.p`: a reader is let
\* in unless a writer is waiting.
CloseRLock(k) ==
    /\ proc = "up"
    /\ cpc[k] = "rlock"
    /\ wq = {}
    /\ readers' = readers \cup {k}
    /\ todo' = [todo EXCEPT ![k] = DOMAIN p]
    /\ snap' = [snap EXCEPT ![k] = p]
    /\ cpc' = [cpc EXCEPT ![k] = "notifying"]
    /\ UNCHANGED << cfg, serverVars, p, wq, proc, startVars, cFlag,
                    closeLog, cres, acceptVars, connVars, logVars >>

\* How p.Disconnect relates to the session's close callback: TRUE, the
\* callback runs on the caller's goroutine before Disconnect returns; FALSE,
\* it runs later on a goroutine of the session.  The player and session
\* packages decide this; both are allowed here.
DisconnectSync == BOOLEAN

\* One iteration of the loop: p.Disconnect(text.Yellow()(ShutdownMessage))
\* for the player under key id.  sync: Disconnect ends the session and runs
\* its close callback on this goroutine before it returns; the callback's
\* Lock then waits for the read lock this goroutine holds.
CloseNotify(k, id, sync) ==
    /\ proc = "up"
    /\ cpc[k] = "notifying"
    /\ id \in todo[k]
    /\ todo' = [todo EXCEPT ![k] = @ \ {id}]
    /\ closeLog' = [closeLog EXCEPT ![k] =
                      Append(@, <<"Disconnect", p[id],
                                  Yellow(cfg.ShutdownMessage)>>)]
    /\ IF sync /\ sess[p[id]] = "open"
       THEN /\ sess' = [sess EXCEPT ![p[id]] = "stuck"]
            /\ wq' = wq \cup {<<"session", p[id]>>}
            /\ cpc' = [cpc EXCEPT ![k] = "deadlock"]
       ELSE UNCHANGED << sess, wq, cpc >>
    /\ UNCHANGED << cfg, serverVars, p, readers, proc, startVars, cFlag,
                    snap, cres, acceptVars, hs, ident, connEnd, logVars >>

\* Mutant of CloseRUnlock: the loop is left before every player was visited.
CloseRUnlockEarly(k) ==
    /\ proc = "up"
    /\ cpc[k] = "notifying"
    /\ readers' = readers \ {k}
    /\ cpc' = [cpc EXCEPT ![k] = "unlocked"]
    /\ UNCHANGED << cfg, serverVars, p, wq, proc, startVars, cFlag, todo,
                    snap, closeLog, cres, acceptVars, connVars, logVars >>

\* playerMutex.RUnlock() after the loop.
CloseRUnlock(k) ==
    /\ proc = "up"
    /\ cpc[k] = "notifying"
    /\ todo[k] = {}
    /\ readers' = readers \ {k}
    /\ cpc' = [cpc EXCEPT ![k] = "unlocked"]
    /\ UNCHANGED << cfg, serverVars, p, wq, proc, startVars, cFlag, todo,
                    snap, closeLog, cres, acceptVars, connVars, logVars >>

\* A Close that goes on to the listener whatever world.Close returned.
CloseWorldGoesOn(k, ok) ==
    /\ proc = "up"
    /\ cpc[k] = "unlocked"
    /\ closeLog' = [closeLog EXCEPT ![k] =
                      Append(@, <<"world.Close", 0,
                                  <<IF ok THEN "nil" ELSE "err">> >>)]
    /\ world' = IF ok THEN "closed" ELSE world
    /\ cpc' = [cpc EXCEPT ![k] = "worldclosed"]
    /\ UNCHANGED << cfg, started, listener, chanClosed, p, mutexVars, proc,
                    startVars, cFlag, todo, snap, cres, acceptVars, connVars,
                    logVars >>

\* server.world.Close(); its error, if any, is returned at once.
CloseWorld(k, ok) ==
    /\ proc = "up"
    /\ cpc[k] = "unlocked"
    /\ closeLog' = [closeLog EXCEPT ![k] =
                      Append(@, <<"world.Close", 0,
                                  <<IF ok THEN "nil" ELSE "err">> >>)]
    /\ IF ok
       THEN /\ world' = "closed"
            /\ cpc' = [cpc EXCEPT ![k] = "worldclosed"]
            /\ cres' = cres
       ELSE /\ world' = world
            /\ cpc' = [cpc EXCEPT ![k] = "returned"]
            /\ cres' = [cres EXCEPT ![k] = "err"]
    /\ UNCHANGED << cfg, started, listener, chanClosed, p, mutexVars, proc,
                    startVars, cFlag, todo, snap, acceptVars, connVars,
                    logVars >>

\* A Close whose last statement also clears the running flag once the
\* listener was closed.
CloseListenerClears(k, ok) ==
    /\ proc = "up"
    /\ cpc[k] = "worldclosed"
    /\ closeLog' = [closeLog EXCEPT ![k] =
                      Append(@, <<"listener.Close", 0,
                                  <<IF listener = "nil" THEN "panic"
                                    ELSE IF ok THEN "nil" ELSE "err">> >>)]
    /\ IF listener = "nil"
       THEN /\ cpc' = [cpc EXCEPT ![k] = "nilpanic"]
            /\ UNCHANGED << listener, cres, started >>
       ELSE /\ cpc' = [cpc EXCEPT ![k] = "returned"]
            /\ listener' = IF ok THEN "closed" ELSE listener
            /\ cres' = [cres EXCEPT ![k] = IF ok THEN "nil" ELSE "err"]
            /\ started' = IF ok THEN 0 ELSE started
    /\ UNCHANGED << cfg, world, chanClosed, p, mutexVars, proc,
                    startVars, cFlag, todo, snap, acceptVars, connVars,
                    logVars >>

\* return server.listener.Close().  With server.listener still nil (Close
\* overtaking startListening) the call is a nil dereference, a panic in the
\* caller.
CloseListener(k, ok) ==
    /\ proc = "up"
    /\ cpc[k] = "worldclosed"
    /\ closeLog' = [closeLog EXCEPT ![k] =
                      Append(@, <<"listener.Close", 0,
                                  <<IF listener = "nil" THEN "panic"
                                    ELSE IF ok THEN "nil" ELSE "err">> >>)]
    /\ IF listener = "nil"
       THEN /\ cpc' = [cpc EXCEPT ![k] = "nilpanic"]
            /\ UNCHANGED << listener, cres >>
       ELSE /\ cpc' = [cpc EXCEPT ![k] = "returned"]
            /\ listener' = IF ok THEN "closed" ELSE listener
            /\ cres' = [cres EXCEPT ![k] = IF ok THEN "nil" ELSE "err"]
    /\ UNCHANGED << cfg, started, world, chanClosed, p, mutexVars, proc,
                    startVars, cFlag, todo, snap, acceptVars, connVars,
                    logVars >>

\* ------------------------------------------------------------------ spec
\* The steps of a server on which at most S calls of Start/Run, K calls of
\* Close and A calls of Accept are made and whose listener yields at most N
\* connections.
NextOf(S, K, A, N) ==
    \/ \E c \in 1..S : StartBegin(c)
    \/ \E c \in 1..S : StartStore(c)
    \/ \E c \in 1..S, kind \in {"Start", "Run"},
          worldOk \in BOOLEAN, bindOk \in BOOLEAN :
          StartListen(c, kind, worldOk, bindOk)
    \/ \E c \in 1..S, n \in 1..N : RunAcceptConn(c, n)
    \/ \E c \in 1..S : RunListenerError(c)
    \/ \E n \in 1..N, ok \in BOOLEAN, d \in Declared : HandleConn(n, ok, d)
    \/ \E n \in 1..N : HandleConnSendClosed(n)
    \/ \E a \in 1..A : AcceptBegin(a)
    \/ \E n \in 1..N, a \in 1..A : ChanHandOff(n, a)
    \/ \E a \in 1..A : AcceptClosed(a)
    \/ \E a \in 1..A : AcceptInsert(a)
    \/ \E n \in 1..N : HandleSessionClose(n)
    \/ \E k \in 1..K : CloseBegin(k)
    \/ \E k \in 1..K : CloseRLock(k)
    \/ \E k \in 1..K, id \in DOMAIN p, sync \in DisconnectSync :
          CloseNotify(k, id, sync)
    \/ \E k \in 1..K : CloseRUnlock(k)
    \/ \E k \in 1..K, ok \in BOOLEAN : CloseWorld(k, ok)
    \/ \E k \in 1..K, ok \in BOOLEAN : CloseListener(k, ok)

\* Player traffic: one Start/Run, one Close, concurrent Accept calls and
\* concurrent connections.
Next == NextOf(TrafficStarts, TrafficCloses, MaxAcceptCalls, MaxConns)

Spec == Init /\ [][Next]_vars

\* Life cycle: repeated and concurrent Start/Run calls, repeated Close
\* calls, with a single connection and a single Accept call.
NextLife == NextOf(MaxStartCalls, MaxCloseCalls, LifeAccepts, LifeConns)

SpecLife == Init /\ [][NextLife]_vars

\* ================================================================ claims
\* Connections whose handshake succeeded (negotiation and identifier parse).
Handshaken == { n \in Conns : hs[n] \in {"sending", "done"} }

\* Whether some Close call returned nil (world close and listener close
\* both succeeded).
CloseSucceeded == \E k \in CloseCalls : cpc[k] = "returned" /\ cres[k] = "nil"

\* Positions in a Close call's log of the calls of one kind.
IdxOf(L, kind) == { i \in DOMAIN L : L[i][1] = kind }

\* C1: an Accept call made after some Close call has returned does not
\* block on the channel and does not return a player: it returns the
\* "server closed" error.
C1_AcceptAfterCloseIsClosed ==
    \A a \in AcceptCalls :
        aAfterClose[a] =>
            /\ apc[a] = "receiving" => chanClosed
            /\ apc[a] # "got"
            /\ ares[a] # "player"

\* C2: when N handshakes have succeeded, N Accept calls have returned and no
\* session has terminated, PlayerCount is N, the returned players'
\* identifiers are pairwise distinct and every returned player is among
\* Players.
C2_CountAfterNAccepts ==
    ( /\ \A n \in Handshaken : sess[n] = "open"
      /\ Len(returnedLog) = Cardinality(Handshaken) )
    => /\ PlayerCount = Len(returnedLog)
       /\ \A i, j \in DOMAIN returnedLog :
             i # j => UUIDOf(returnedLog[i]) # UUIDOf(returnedLog[j])
       /\ Range(returnedLog) \subseteq Players

\* C3: in every Close call, each player that was in the registry when the
\* call ranged over it has been sent a disconnect notice carrying the
\* configured shutdown text before world.Close is called, no notice is sent
\* after world.Close, world.Close is called before listener.Close, and the
\* registry does not change while the call ranges over it.
C3_CloseOrder ==
    \A k \in CloseCalls :
        LET L == closeLog[k] IN
        /\ cpc[k] = "notifying" => p = snap[k]
        /\ \A i \in IdxOf(L, "world.Close") :
              /\ \A id \in DOMAIN snap[k] :
                    \E j \in 1..(i - 1) :
                        /\ L[j][1] = "Disconnect"
                        /\ L[j][2] = snap[k][id]
                        /\ L[j][3][2] = cfg.ShutdownMessage
              /\ \A j \in IdxOf(L, "Disconnect") : j < i
        /\ \A i \in IdxOf(L, "listener.Close") :
              \E j \in 1..(i - 1) : L[j][1] = "world.Close"

\* C3 witness: a Close call that notified two registered players, closed the
\* world and closed the listener.
C3_Witness ==
    \E k \in CloseCalls :
        /\ Cardinality(DOMAIN snap[k]) = 2
        /\ IdxOf(closeLog[k], "listener.Close") # {}

\* C4: after Start/Run has returned the bind error the running flag reads
\* not-running.
C4_BindFailureNotRunning ==
    \A c \in StartCalls : spc[c] = "returned_err" => ~running

\* C5: once a Close call has returned nil, no handshake or accept-loop
\* goroutine panics, and a caller blocked in Accept leaves it only with the
\* "server closed" error.
C5_CloseUnblocksAccept ==
    [][ CloseSucceeded =>
          /\ proc' # "panic"
          /\ \A a \in AcceptCalls :
                apc[a] = "receiving" =>
                    (apc'[a] = "receiving" \/ ares'[a] = "closed") ]_vars

\* C6: when the inserted players have pairwise distinct identifiers and every
\* session-close callback ran after its player's insertion, the registry
\* holds exactly the inserted players that were not removed, each under its
\* own identifier, and PlayerCount is inserted minus removed.
C6_RegistryExact ==
    LET ins == Range(returnedLog)
        rem == { n \in Conns : sess[n] = "closed" }
    IN  ( /\ early = {}
          /\ \A m, n \in ins : m # n => UUIDOf(m) # UUIDOf(n) )
        => /\ Players = ins \ rem
           /\ \A n \in ins \ rem : Player(UUIDOf(n)) = [p |-> n, ok |-> TRUE]
           /\ PlayerCount = Cardinality(ins) - Cardinality(rem)

\* C6 witness: two players inserted, one of them removed afterwards.
C6_Witness ==
    /\ early = {}
    /\ Len(returnedLog) = 2
    /\ UUIDOf(returnedLog[1]) # UUIDOf(returnedLog[2])
    /\ Cardinality({ n \in Conns : sess[n] = "closed" }) = 1

\* C7: a Start/Run call made while the running flag is set panics, and it
\* changes neither the flag, the world, the listener nor the accept loops;
\* a call that panicked does nothing afterwards.
C7_StartWhileRunningPanics ==
    /\ [](\A c \in StartCalls :
            sFlag[c] = 1 => spc[c] = "panicked" /\ loop[c] = "none")
    /\ [][ \A c \in StartCalls :
             (spc[c] = "idle" /\ spc'[c] # "idle" /\ started = 1) =>
                 /\ spc'[c] = "panicked"
                 /\ UNCHANGED << started, world, listener, loop, chanClosed >>
         ]_vars

\* C7 witness: a second Start/Run call found the flag set and panicked while
\* the first call's accept loop runs.
C7_Witness ==
    \E c, d \in StartCalls :
        sFlag[c] = 1 /\ spc[c] = "panicked" /\ loop[d] = "active"

\* C8: a Close call made while the running flag is clear panics before any
\* effect: it takes no lock, notifies no player and closes neither the world
\* nor the listener.
C8_CloseNotRunningPanics ==
    /\ [](\A k \in CloseCalls :
            (cpc[k] # "idle" /\ cFlag[k] = 0) =>
                cpc[k] = "panicked" /\ closeLog[k] = << >> /\ k \notin readers)
    /\ [][ \A k \in CloseCalls :
             (cpc[k] = "idle" /\ cpc'[k] # "idle" /\ started = 0) =>
                 /\ cpc'[k] = "panicked"
                 /\ UNCHANGED << world, listener, closeLog, readers, p >>
         ]_vars

\* C8 witness: a Close call made before any Start/Run has panicked.
C8_Witness ==
    \E k \in CloseCalls : cFlag[k] = 0 /\ cpc[k] = "panicked"

\* C9: a connection whose handshake failed is disconnected or closed, has no
\* session, was never sent on the channel and is not in the registry; only
\* connections with a well-formed identifier get past the handshake; and the
\* step in which a handshake fails changes neither the registry, the channel
\* nor any other connection.
C9_FailedHandshakeIsolated ==
    /\ [](\A n \in Conns :
            /\ hs[n] = "failed" =>
                  /\ connEnd[n] \in {"disconnected", "closed"}
                  /\ sess[n] = "none"
                  /\ n \notin Range(sentLog)
                  /\ n \notin Players
            /\ (hs[n] \in {"sending", "done"} \/ n \in Players) =>
                  ident[n][1] = "std")
    /\ [][ \A n \in Conns :
             (hs[n] # "failed" /\ hs'[n] = "failed") =>
                 /\ UNCHANGED << p, sentLog, chanClosed >>
                 /\ \A m \in Conns \ {n} :
                       /\ hs'[m] = hs[m]
                       /\ sess'[m] = sess[m]
                       /\ connEnd'[m] = connEnd[m]
         ]_vars

\* C9 witness: one connection was closed for its malformed identifier while
\* another connection's player is in the registry.
C9_Witness ==
    \E n, m \in Conns :
        /\ hs[n] = "failed"
        /\ connEnd[n] = "closed"
        /\ m \in Players

\* C10 as stated: the i-th player returned by Accept is the i-th player
\* sent, whether or not Accept calls overlap.
C10_ReturnOrderIsSendOrder ==
    \A i \in DOMAIN returnedLog : returnedLog[i] = sentLog[i]

\* C10 amended: every returned player is one that was sent, none is
\* returned twice, and as long as no two Accept calls were in progress at
\* once the i-th player returned is the i-th player sent.
C10_SequentialReturnOrder ==
    /\ Range(returnedLog) \subseteq Range(sentLog)
    /\ \A i, j \in DOMAIN returnedLog :
          i # j => returnedLog[i] # returnedLog[j]
    /\ ~overlap => \A i \in DOMAIN returnedLog : returnedLog[i] = sentLog[i]

\* C10 witness: Accept calls made one after the other returned the second
\* connection's player before the first connection's.
C10_Witness ==
    ~overlap /\ returnedLog = <<2, 1>>

\* C11: in every reachable registry state MaxPlayerCount is the configured
\* maximum itself when that maximum is not zero, whatever the number of
\* registered players, and is one more than the number of registered
\* players when the configured maximum is zero.
C11_MaxPlayerCount ==
    /\ cfg.MaximumPlayers # 0 => MaxPlayerCount = cfg.MaximumPlayers
    /\ cfg.MaximumPlayers = 0 =>
          /\ MaxPlayerCount = Cardinality(DOMAIN p) + 1
          /\ MaxPlayerCount > Cardinality(Players)

C11_Witness ==
    /\ cfg.MaximumPlayers = 0
    /\ Cardinality(DOMAIN p) = MaxConns
    /\ MaxPlayerCount = MaxConns + 1

\* C12: no step clears the running flag once it is set, a successful Close
\* included; a Close call made after an earlier Close call passed the guard
\* passes the guard too and runs the close sequence again instead of
\* panicking; and a Start or Run call made after a Close call has returned
\* panics.
C12_RunningNeverCleared ==
    /\ [][started = 1 => started' = 1]_vars
    /\ [](\A k \in CloseCalls :
            (k > 1 /\ cpc[k] # "idle") =>
                (cFlag[k - 1] = 1 => cFlag[k] = 1 /\ cpc[k] # "panicked"))
    /\ [][\A c \in StartCalls :
            ( /\ spc[c] = "idle"
              /\ spc'[c] # "idle"
              /\ \E k \in CloseCalls : cpc[k] = "returned" )
            => spc'[c] = "panicked"]_vars

C12_Witness ==
    /\ started = 1
    /\ cpc[1] = "returned" /\ cres[1] = "nil"
    /\ cpc[2] = "returned"
    /\ IdxOf(closeLog[2], "world.Close") # {}
    /\ IdxOf(closeLog[2], "listener.Close") # {}
    /\ \E c \in StartCalls : spc[c] = "panicked"

\* C13: the channel holds no queued player.  A handshake that reached its
\* send leaves it only in a step in which an Accept call receives its
\* player, every completed send is matched by one Accept call that has
\* received, and every player in the registry was received, and returned,
\* by an Accept call.
C13_NoQueuedPlayers ==
    /\ [](\A n \in Conns :
             hs[n] = "done" =>
                 \E a \in AcceptCalls :
                     recv[a] = n /\ (apc[a] = "got" \/ ares[a] = "player"))
    /\ [](Cardinality({ n \in Conns : hs[n] = "done" })
             = Cardinality({ a \in AcceptCalls :
                               apc[a] = "got" \/ ares[a] = "player" }))
    /\ [](\A n \in Players :
             \E a \in AcceptCalls : recv[a] = n /\ ares[a] = "player")
    /\ [][\A n \in Conns :
            (hs[n] = "sending" /\ hs'[n] # "sending") =>
                \E a \in AcceptCalls :
                    apc[a] = "receiving" /\ apc'[a] = "got" /\ recv'[a] = n]_vars

C13_Witness ==
    /\ \E n, m \in Conns :
          /\ hs[n] = "sending"
          /\ hs[m] = "done" /\ m \in Players
    /\ \A a \in AcceptCalls : apc[a] # "receiving"

\* C14: the accept loop waits neither on a handshake nor on the channel.
\* Whenever the loop runs on an open listener and a connection is yet to
\* arrive, the loop can take and dispatch it, whatever the handshakes
\* dispatched before are doing (negotiating, or blocked at their send with
\* no Accept call receiving); and the dispatch touches no other handshake
\* and no Accept call.
C14_LoopNeverWaits ==
    /\ [](\A c \in StartCalls, n \in Conns :
             ( /\ proc = "up"
               /\ loop[c] = "active"
               /\ listener = "listening"
               /\ hs[n] = "none"
               /\ InOrder(hs, n, "none") )
             => ENABLED RunAcceptConn(c, n))
    /\ [][\A n \in Conns :
            (hs[n] = "none" /\ hs'[n] = "negotiating") =>
                /\ \A m \in Conns \ {n} : hs'[m] = hs[m]
                /\ apc' = apc]_vars

C14_Witness ==
    /\ \A n \in Conns : hs[n] \in {"negotiating", "sending"}
    /\ \E n \in Conns : hs[n] = "sending"
    /\ \A a \in AcceptCalls : apc[a] = "idle"

\* C15: a Close call whose world.Close failed returns that error at once:
\* it makes no call of listener.Close, and its last step leaves the
\* listener, the accept loop and the channel as they were.  A Close call
\* whose world.Close succeeded and that returned has called
\* listener.Close and returns what that call returned.
C15_WorldErrorSkipsListener ==
    /\ [](\A k \in CloseCalls :
             LET L == closeLog[k] IN
             \A i \in IdxOf(L, "world.Close") :
                 IF L[i][3][1] = "err"
                 THEN /\ cpc[k] = "returned"
                      /\ cres[k] = "err"
                      /\ i = Len(L)
                 ELSE cpc[k] = "returned" =>
                          \E j \in IdxOf(L, "listener.Close") :
                              /\ j = i + 1 /\ j = Len(L)
                              /\ L[j][3][1] = cres[k])
    /\ [][\A k \in CloseCalls :
            (cpc[k] = "unlocked" /\ cpc'[k] = "returned") =>
                /\ cres'[k] = "err"
                /\ UNCHANGED << listener, loop, chanClosed, world >>]_vars

C15_Witness ==
    \E k \in CloseCalls :
        /\ cpc[k] = "returned" /\ cres[k] = "err"
        /\ \E i \in IdxOf(closeLog[k], "world.Close") :
              closeLog[k][i][3][1] = "err"
        /\ listener = "listening"
        /\ ~chanClosed
        /\ \E c \in StartCalls : loop[c] = "active"

\* C16: no handshake is at its channel send, about to send or blocked in
\* it, once the accept loop has closed the channel.
C16_NoSendAfterChanClosed ==
    \A n \in Conns : ~(chanClosed /\ hs[n] = "sending")

\* C17: a player whose session-close callback has run is not in the
\* registry, in any state from the callback's return on.
C17_ClosedSessionNotRegistered ==
    \A n \in Conns : sess[n] = "closed" => n \notin Players

\* C18: in the step in which a Close call invokes world.Close, every
\* player then in the registry has been sent that call's disconnect
\* notice.
C18_AllNotifiedAtWorldClose ==
    [][\A k \in CloseCalls :
         (cpc[k] = "unlocked" /\ cpc'[k] # "unlocked") =>
             \A id \in DOMAIN p :
                 \E j \in IdxOf(closeLog[k], "Disconnect") :
                     closeLog[k][j][2] = p[id]]_vars

\* C19: the notification loop of a Close call never blocks against the
\* session-close callback: no Close call holds the read lock while the
\* callback of a player it is disconnecting waits, on that same call's
\* goroutine, for the write lock.
C19_NotifyNeverDeadlocks ==
    \A k \in CloseCalls :
        k \in readers =>
            \A n \in Conns :
                ~(sess[n] = "stuck" /\ <<"session", n>> \in wq)

\* C20: among all Start and Run calls made, concurrent ones included, at
\* most one has passed the running guard (and so at most one goes on to
\* load the world and bind the listener).
C20_AtMostOnePassesGuard ==
    Cardinality({ c \in StartCalls : spc[c] \notin {"idle", "panicked"} }) <= 1

====
